---- MODULE Spec2Model ----
(***************************************************************************)
(* Model of the evidence-assembly and resumable-resolution pipeline of     *)
(* inab/software-id-benchmark:                                             *)
(*   - chunk_text / chunk_entries (greedy token-budgeted chunking),        *)
(*   - build_chat_messages_with_disconnected (message assembly + ceiling), *)
(*   - prepare_messages_file, make_inferences and                          *)
(*     disambiguate_disconnected_entries (the three batch workflows),      *)
(*   - the results file (ledger) and load_solved_conflict_keys.            *)
(***************************************************************************)
EXTENDS Integers, Sequences, FiniteSets, TLC

\* ------------------------------------------------------------------ bounds
\* longest input text of chunk_text, in characters
MaxTextLen == 7
\* longest record list handed to chunk_entries in the chunking specification
MaxEntries == 3
\* largest token weight of one record in the chunking specification
MaxTok == 3
\* largest max_tokens tried in the chunking specification (1..MaxLimit)
MaxLimit == 3

\* number of conflict keys of a batch (keys are 1..NumKeys, in batch order)
NumKeys == 2
\* how many times prepare_messages_file may be run on the same messages file
MaxPrepareRuns == 1
\* token weight of the fixed text of one message (template, preamble, fences)
FixedTextTokens == 100
\* most attempts of one query whose network call fails before the provider answers
MaxTransient == 2
\* longest answer text handed to parse_result on its own, in tokens
MaxAnswerLen == 6
\* appends to the results file begun in the specification of the appends
MaxAppends == 3

\* ------------------------------------------------------- program constants
MAX_TOTAL_TOKENS == 130000
max_tokens_per_chunk == 8000

\* ---------------------------------------------------------------- strings
\* A text is a sequence of characters; " " is the only whitespace modelled.
Chars == {"a", "b", " "}

RECURSIVE SeqsUpTo(_, _)
SeqsUpTo(S, n) ==
  IF n = 0 THEN {<<>>}
  ELSE LET shorter == SeqsUpTo(S, n - 1)
       IN  shorter \cup {Append(s, x) : s \in {t \in shorter : Len(t) = n - 1}, x \in S}

\* str.split() with no argument: split on runs of whitespace, no empty words
RECURSIVE SplitLoop(_, _, _)
SplitLoop(text, words, cur) ==
  IF text = <<>>
  THEN IF cur = <<>> THEN words ELSE Append(words, cur)
  ELSE IF Head(text) = " "
       THEN SplitLoop(Tail(text), IF cur = <<>> THEN words ELSE Append(words, cur), <<>>)
       ELSE SplitLoop(Tail(text), words, Append(cur, Head(text)))

split(text) == SplitLoop(text, <<>>, <<>>)

\* " ".join(parts)
RECURSIVE join(_)
join(parts) ==
  IF parts = <<>> THEN <<>>
  ELSE IF Len(parts) = 1 THEN parts[1]
  ELSE parts[1] \o <<" ">> \o join(Tail(parts))

\* ------------------------------------------------------------- tokenizer
\* get_tokenizer(model) is an external tokenizer.  Two tokenizers are
\* modelled: "char" gives one token per non-blank character, "word" one token
\* per whitespace-delimited word (blanks merge into the neighbouring token).
Encoders == {"char", "word"}

encode_len(enc, s) ==
  IF enc = "char" THEN Len(SelectSeq(s, LAMBDA c : c /= " ")) ELSE Len(split(s))

\* ---------------------------------------------------------- chunk_text
\* The for loop of chunk_text over the words left; chunks holds the joined
\* strings appended so far, current_chunk the words of the open chunk.
\* a chunker that closes the open chunk only once it is already over the limit
chunk_text_closes_after_overflow(current_token_count, token_len, max_tokens) ==
  current_token_count > max_tokens

\* the test of the loop: adding the word would take the open chunk over the limit
chunk_text_overflows(current_token_count, token_len, max_tokens) ==
  current_token_count + token_len > max_tokens

RECURSIVE chunk_text_loop(_, _, _, _, _, _)
chunk_text_loop(words, enc, max_tokens, chunks, current_chunk, current_token_count) ==
  IF words = <<>>
  THEN IF current_chunk /= <<>> THEN Append(chunks, join(current_chunk)) ELSE chunks
  ELSE LET word == Head(words)
           token_len == encode_len(enc, word \o <<" ">>)
       IN  IF chunk_text_overflows(current_token_count, token_len, max_tokens)
           THEN chunk_text_loop(Tail(words), enc, max_tokens,
                                Append(chunks, join(current_chunk)), <<word>>, token_len)
           ELSE chunk_text_loop(Tail(words), enc, max_tokens,
                                chunks, Append(current_chunk, word),
                                current_token_count + token_len)

chunk_text(text, max_tokens, enc) ==
  chunk_text_loop(split(text), enc, max_tokens, <<>>, <<>>, 0)

\* -------------------------------------------------------- chunk_entries
\* An entry is a record [id, tok]: tok is len(enc.encode(json.dumps(entry))).
\* a chunker that closes the open chunk only once it is already over the limit
chunk_entries_closes_after_overflow(current_token_count, entry_tokens, max_tokens) ==
  current_token_count > max_tokens

\* the test of the loop: adding the entry would take the open chunk over the limit
chunk_entries_overflows(current_token_count, entry_tokens, max_tokens) ==
  current_token_count + entry_tokens > max_tokens

RECURSIVE chunk_entries_loop(_, _, _, _, _)
chunk_entries_loop(entries, max_tokens, chunks, current_chunk, current_token_count) ==
  IF entries = <<>>
  THEN IF current_chunk /= <<>> THEN Append(chunks, current_chunk) ELSE chunks
  ELSE LET entry == Head(entries)
           entry_tokens == entry.tok
       IN  IF chunk_entries_overflows(current_token_count, entry_tokens, max_tokens)
           THEN chunk_entries_loop(Tail(entries), max_tokens,
                                   Append(chunks, current_chunk), <<entry>>, entry_tokens)
           ELSE chunk_entries_loop(Tail(entries), max_tokens,
                                   chunks, Append(current_chunk, entry),
                                   current_token_count + entry_tokens)

chunk_entries(entries, max_tokens) ==
  chunk_entries_loop(entries, max_tokens, <<>>, <<>>, 0)

\* ------------------------------------------------------------ data model
Keys == 1..NumKeys

\* the iteration order of the conflicts / grouped_entries dictionary
KeyOrder == [i \in 1..NumKeys |-> i]

Entry(id, tok) == [id |-> id, tok |-> tok]

\* A conflict: its two partitions, the token weights of the evidence texts
\* its URLs enrich to (one per (URL, content-label) pair), and whether the
\* enrichment of one of its URLs raises (get_gitlab_repo_metadata raises on
\* a non-200 status, enrich_links.py line 129, and enrich_link does not
\* catch it).
ConflictShapes ==
  { [disconnected |-> <<Entry(1, 3000)>>,
     remaining |-> <<Entry(2, 5000), Entry(3, 5000)>>,
     web |-> <<2000>>, enrich_raises |-> FALSE],
    [disconnected |-> <<Entry(1, 9000)>>,
     remaining |-> <<Entry(2, 3000)>>,
     web |-> <<117400>>, enrich_raises |-> FALSE],
    [disconnected |-> <<Entry(1, 9000)>>,
     remaining |-> <<Entry(2, 3000)>>,
     web |-> <<117401>>, enrich_raises |-> FALSE],
    [disconnected |-> <<Entry(1, 3000)>>,
     remaining |-> <<Entry(2, 3000)>>,
     web |-> <<2000>>, enrich_raises |-> TRUE] }

Raised(error) == [raised |-> TRUE, error |-> error]

\* build_full_conflict: the partitions and the enriched contents, or the
\* exception an enrichment let through
build_full_conflict(conflict) ==
  IF conflict.enrich_raises
  THEN Raised("Exception")
  ELSE [raised |-> FALSE,
        disconnected |-> conflict.disconnected,
        remaining |-> conflict.remaining,
        webpage_contents |-> conflict.web]

\* ------------------------------------------------------ message assembly
RECURSIVE SumTok(_)
SumTok(items) == IF items = <<>> THEN 0 ELSE Head(items).tok + SumTok(Tail(items))

Message(kind, part, tok) == [role |-> "user", kind |-> kind, part |-> part, tok |-> tok]

\* one message per chunk of a partition, labelled "part i+1"
EntryMessages(kind, entries) ==
  IF entries = <<>> THEN <<>>
  ELSE LET chunks == chunk_entries(entries, max_tokens_per_chunk)
       IN  [i \in DOMAIN chunks |->
              Message(kind, i, FixedTextTokens + SumTok(chunks[i]))]

\* chunk_dict: one message per (url, label) pair of webpage_contents
chunk_dict(webpage_contents) ==
  [i \in DOMAIN webpage_contents |->
     Message("content", i, FixedTextTokens + webpage_contents[i])]

\* a builder that sends the disconnected entries before the remaining ones
assemble_disconnected_first(conflict_data) ==
  <<Message("instruction", 0, FixedTextTokens)>>
  \o EntryMessages("disconnected", conflict_data.disconnected)
  \o EntryMessages("remaining", conflict_data.remaining)
  \o chunk_dict(conflict_data.webpage_contents)
  \o <<Message("final", 0, FixedTextTokens)>>

\* the messages list as it stands before the token budget check
assemble_messages(conflict_data) ==
  <<Message("instruction", 0, FixedTextTokens)>>
  \o EntryMessages("remaining", conflict_data.remaining)
  \o EntryMessages("disconnected", conflict_data.disconnected)
  \o chunk_dict(conflict_data.webpage_contents)
  \o <<Message("final", 0, FixedTextTokens)>>

estimate_total_tokens(messages) == SumTok(messages)

\* a budget check that also rejects a request of exactly the ceiling
over_budget_at_ceiling(total_tokens) == total_tokens >= MAX_TOTAL_TOKENS

\* the token budget check of build_chat_messages_with_disconnected
over_budget(total_tokens) == total_tokens > MAX_TOTAL_TOKENS

build_chat_messages_with_disconnected(conflict_data) ==
  LET messages == assemble_messages(conflict_data)
      total_tokens == estimate_total_tokens(messages)
  IN  IF over_budget(total_tokens)
      THEN Raised("ValueError")
      ELSE [raised |-> FALSE, messages |-> messages]

\* flatten_messages_to_prompt: one text holding every message under its
\* role header, closed by the assistant marker
flatten_messages_to_prompt(messages) ==
  [flattened |-> TRUE,
   parts |-> [i \in DOMAIN messages |-> [header |-> "### User", body |-> messages[i]]],
   closing |-> "### Assistant"]

PromptTypes == {"chat", "flattened"}

build_prompt_benchmarking(data_dict, prompt_type) ==
  IF prompt_type = "chat"
  THEN LET d1 == IF Len(data_dict.disconnected) > 1 /\ Len(data_dict.remaining) = 0
                 THEN [data_dict EXCEPT !.remaining = <<data_dict.disconnected[2]>>,
                                        !.disconnected = <<data_dict.disconnected[1]>>]
                 ELSE data_dict
           d2 == IF Len(d1.disconnected) = 0 /\ Len(d1.remaining) = 2
                 THEN [d1 EXCEPT !.disconnected = <<d1.remaining[1]>>,
                                 !.remaining = <<d1.remaining[2]>>]
                 ELSE d1
       IN  build_chat_messages_with_disconnected(d2)
  ELSE LET built == build_chat_messages_with_disconnected(data_dict)
       IN  IF built.raised THEN built
           ELSE [raised |-> FALSE, messages |-> flatten_messages_to_prompt(built.messages)]

\* ------------------------------------------------------------ the oracle
Verdicts == {"Same", "Different", "Unclear"}

\* the ids of the member entries of a conflict, and the groups a verdict gives
MemberIds == <<1, 2>>
GroupsOf(verdict) ==
  IF verdict = "Same" THEN <<MemberIds>>
  ELSE IF verdict = "Different" THEN [i \in DOMAIN MemberIds |-> <<MemberIds[i]>>]
  ELSE <<>>

\* An answer value: a str, the tuple (result, meta) or None.  The text of a
\* str is a sequence of tokens: a fence marker of three backquotes, written
\* "~~~" here (bare, or directly followed by the tag json or python), a
\* brace, a verdict v, which stands for the member "verdict": "v" of a JSON
\* object, or any other text.  Whitespace is left out: the
\* patterns of parse_result allow it between any two of these tokens.
Str(tokens) == [type |-> "str", tokens |-> tokens]

JsonText(verdict) == Str(<<"~~~json", "{", verdict, "}", "~~~">>)
ProseText == Str(<<"text">>)
EmptyText == Str(<<>>)

\* What the provider does with one query.  status says how it answers once
\* the network call gets through: "ok" is a 200 with the answer text,
\* "ok_no_content" a 200 whose JSON body has no or an empty content,
\* "ok_not_json" a 200 whose body is not JSON, "non_success" any other
\* status; "network_error" is a network call that raises on every attempt.
\* transient is the number of attempts whose network call raises before the
\* provider answers.
Replies ==
  [status : {"ok"}, text : {JsonText(v) : v \in Verdicts} \cup {ProseText},
   transient : 0..MaxTransient]
  \cup [status : {"ok_no_content", "ok_not_json", "non_success"}, text : {EmptyText},
        transient : 0..MaxTransient]
  \cup {[status |-> "network_error", text |-> EmptyText, transient |-> 0]}

NoReply == [status |-> "none", text |-> EmptyText, transient |-> 0]

Providers == {"openrouter", "huggingface"}

\* stop_after_attempt(3) of the retry decorator
stop_after_attempt == 3

\* The body both query functions share, at its n-th execution: the network
\* call, then the reading of the response.  A body that is not JSON makes
\* response.json() raise in the try block and again in the except block
\* (lines 237 and 271), so the exception leaves the function.
post_and_read(reply, n) ==
  IF reply.status = "network_error" \/ n <= reply.transient
  THEN Raised("ConnectionError")
  ELSE IF reply.status = "ok_not_json" THEN Raised("JSONDecodeError")
  ELSE IF reply.status = "ok" THEN [raised |-> FALSE, content |-> reply.text]
  ELSE [raised |-> FALSE, content |-> EmptyText]

\* @retry(stop=stop_after_attempt(3), ...): the body is run again when it
\* raised, and RetryError is raised after the last attempt
RECURSIVE retry(_, _)
retry(reply, n) ==
  LET outcome == post_and_read(reply, n)
  IN  IF ~outcome.raised
      THEN [raised |-> FALSE, content |-> outcome.content, attempts |-> n]
      ELSE IF n >= stop_after_attempt
           THEN [raised |-> TRUE, error |-> "RetryError", attempts |-> n]
           ELSE retry(reply, n + 1)

query_openrouter(reply) == retry(reply, 1)

\* query_huggingface_new: its retry decorator is commented out (line 245)
query_huggingface_new(reply) ==
  LET outcome == post_and_read(reply, 1)
  IN  IF outcome.raised
      THEN [raised |-> TRUE, error |-> outcome.error, attempts |-> 1]
      ELSE [raised |-> FALSE, content |-> outcome.content, attempts |-> 1]

\* the call of make_inferences: (content, meta), ('', {}), or an exception
query(provider, reply) ==
  IF provider = "openrouter" THEN query_openrouter(reply)
  ELSE query_huggingface_new(reply)

NoAnswer == [raised |-> FALSE, content |-> EmptyText, attempts |-> 0]

\* the values make_inference returns: the tuple (result, meta), whose text
\* is that of result, or None
Tuple(result) == [type |-> "tuple", tokens |-> result.tokens]
None == [type |-> "NoneType", tokens |-> <<>>]

\* make_inference(messages, model, "openrouter"): the pair the oracle
\* client returned, or None when it raised
make_inference(reply) ==
  LET answer == query_openrouter(reply)
  IN  IF answer.raised THEN None ELSE Tuple(answer.content)

\* the dictionary {}
EmptyResult == [empty |-> TRUE]

\* every token that starts with the fence marker
FenceTokens == {"~~~", "~~~json", "~~~python"}

\* a first pattern that knows the json tag only
json_fences_only == {"~~~", "~~~json"}

\* the fence marker with the optional tag (?:json|python) that opens the
\* first pattern of parse_result
opening_fences == {"~~~", "~~~json", "~~~python"}

\* the non-greedy body of the first pattern: the first closing brace at or
\* after j that a fence marker follows, or 0
RECURSIVE first_fenced_close(_, _)
first_fenced_close(tokens, j) ==
  IF j + 1 > Len(tokens) THEN 0
  ELSE IF tokens[j] = "}" /\ tokens[j + 1] \in FenceTokens THEN j
  ELSE first_fenced_close(tokens, j + 1)

\* re.search of the first pattern, trying the start positions from i on:
\* the group it captures, or no match
RECURSIVE search_code_block(_, _)
search_code_block(tokens, i) ==
  IF i + 1 > Len(tokens) THEN [match |-> FALSE]
  ELSE IF tokens[i] \in opening_fences /\ tokens[i + 1] = "{"
            /\ first_fenced_close(tokens, i + 2) > 0
       THEN [match |-> TRUE,
             group |-> SubSeq(tokens, i + 1, first_fenced_close(tokens, i + 2))]
       ELSE search_code_block(tokens, i + 1)

\* re.search of the fallback pattern "(\{.*\})": from the first opening brace
\* to the last closing brace
search_braces(tokens) ==
  LET opens == {i \in DOMAIN tokens : tokens[i] = "{"}
      closes == {i \in DOMAIN tokens : tokens[i] = "}"}
  IN  IF opens = {} \/ closes = {} THEN [match |-> FALSE]
      ELSE LET first == CHOOSE i \in opens : \A k \in opens : i <= k
               last_close == CHOOSE i \in closes : \A k \in closes : i >= k
           IN  IF first < last_close
               THEN [match |-> TRUE, group |-> SubSeq(tokens, first, last_close)]
               ELSE [match |-> FALSE]

\* opening minus closing braces among the first i tokens
RECURSIVE Depth(_, _)
Depth(tokens, i) ==
  IF i = 0 THEN 0
  ELSE Depth(tokens, i - 1)
       + (IF tokens[i] = "{" THEN 1 ELSE IF tokens[i] = "}" THEN -1 ELSE 0)

\* json.loads accepts the text: one object, its braces nested properly, with
\* members and nested objects only
is_json_object(json_str) ==
  /\ \A i \in DOMAIN json_str : json_str[i] \in {"{", "}"} \cup Verdicts
  /\ \A i \in 1..(Len(json_str) - 1) : Depth(json_str, i) > 0
  /\ Depth(json_str, Len(json_str)) = 0

\* json.loads(json_str), with JSONDecodeError caught: the dictionary, whose
\* 'verdict' is the last top-level verdict member
json_loads(json_str) ==
  IF ~is_json_object(json_str) \/ Len(json_str) = 2 THEN EmptyResult
  ELSE LET members == {i \in DOMAIN json_str :
                         json_str[i] \in Verdicts /\ Depth(json_str, i) = 1}
           verdict == IF members = {} THEN "none"
                      ELSE json_str[CHOOSE i \in members : \A k \in members : i >= k]
       IN  [empty |-> FALSE, verdict |-> verdict, groups |-> GroupsOf(verdict),
            object |-> json_str]

\* parse_result: the JSON object of the answer, {} when there is none, or the
\* TypeError re.search raises for a value that is not a str
parse_result(text) ==
  IF text.type /= "str" THEN Raised("TypeError")
  ELSE LET block == search_code_block(text.tokens, 1)
           braces == search_braces(text.tokens)
       IN  [raised |-> FALSE,
            value |-> IF block.match THEN json_loads(block.group)
                      ELSE IF braces.match THEN json_loads(braces.group)
                      ELSE EmptyResult]

\* ------------------------------------------------------------- the files
\* A file is whether it exists, and its text.  The text json.dump writes for
\* {key: value} is two pieces, its "head" and its "tail"; "\n" is a piece.
Piece(key, value, part) == [key |-> key, value |-> value, part |-> part]
Newline == Piece(0, EmptyResult, "newline")
NoFile == [exists |-> FALSE, text |-> <<>>]

\* json.dump({key: value}, f): the text of the record
json_dump(key, value) == <<Piece(key, value, "head"), Piece(key, value, "tail")>>

\* the record save_result and disambiguate_disconnected_entries write
LedgerLine(key, result) == json_dump(key, result)

\* write_to_results_file / save_result when every write gets through: the
\* record, then "\n", at the end of the file; open(..., "a") creates the file
append_line(file, line) == [exists |-> TRUE, text |-> file.text \o line \o <<Newline>>]

RECURSIVE append_lines(_, _)
append_lines(file, lines) ==
  IF lines = <<>> THEN file
  ELSE append_lines(append_line(file, Head(lines)), Tail(lines))

\* for line in f: the lines of the text without their "\n"; what follows the
\* last "\n" is a line too; current is the line being read
RECURSIVE read_lines(_, _)
read_lines(text, current) ==
  IF text = <<>>
  THEN IF current = <<>> THEN <<>> ELSE <<current>>
  ELSE IF Head(text).part = "newline"
       THEN <<current>> \o read_lines(Tail(text), <<>>)
       ELSE read_lines(Tail(text), Append(current, Head(text)))

\* json.loads(line), then next(iter(entry)) and entry[key]: the line has to
\* be the whole text of one record
json_loads_entry(line) ==
  IF /\ Len(line) = 2
     /\ line[1].part = "head"
     /\ line[2].part = "tail"
     /\ line[1].key = line[2].key
  THEN [raised |-> FALSE, key |-> line[1].key, value |-> line[1].value]
  ELSE Raised("JSONDecodeError")

\* a loader that gives up at the first line it cannot parse
stops_at_malformed_line(rest) == <<>>

\* the except block of the loop of load_solved_conflict_keys: a warning is
\* logged and the loop goes on with the lines left
skips_malformed_line(rest) == rest

\* the for loop of load_solved_conflict_keys over the lines left
RECURSIVE load_loop(_, _)
load_loop(lines, solved_keys) ==
  IF lines = <<>> THEN solved_keys
  ELSE LET line == Head(lines)
           entry == json_loads_entry(line)
       IN  IF line = <<>> THEN load_loop(Tail(lines), solved_keys)
           ELSE IF entry.raised
                THEN load_loop(skips_malformed_line(Tail(lines)), solved_keys)
                ELSE load_loop(Tail(lines), solved_keys \cup {entry.key})

load_solved_conflict_keys(jsonl) ==
  IF ~jsonl.exists THEN {} ELSE load_loop(read_lines(jsonl.text, <<>>), {})

\* parse_messages_file: the keys of the dictionary it returns, in order of
\* first appearance; blank lines and lines that do not parse are skipped
RECURSIVE FirstKeys(_, _)
FirstKeys(lines, seen) ==
  IF lines = <<>> THEN <<>>
  ELSE LET line == Head(lines)
           entry == json_loads_entry(line)
       IN  IF line = <<>> \/ entry.raised THEN FirstKeys(Tail(lines), seen)
           ELSE IF entry.key \in seen THEN FirstKeys(Tail(lines), seen)
           ELSE <<entry.key>> \o FirstKeys(Tail(lines), seen \cup {entry.key})

parse_messages_file(file) == FirstKeys(read_lines(file.text, <<>>), {})

\* a loop that takes no key for solved
never_solved(key, solved) == FALSE

\* the test of the loop of make_inferences: the key is already solved
already_solved(key, solved) == key \in solved

\* ------------------------------------------------------------------ state
VARIABLES
  mode,                  \* "bench" (prepare + make_inferences), "prod"
                         \* (disambiguate_disconnected_entries), or the
                         \* function a single-call specification calls
  conflicts,             \* bench input: conflict key -> conflict data
  disconnected_entries,  \* prod input: the keys that are disconnected
  ledger,                \* the results file, lines {key: result}
  messages_file,         \* the messages file, lines {key: messages}
  prepRuns,              \* runs of prepare_messages_file started so far
  wf,                    \* the workflow the current run executes
  pc,                    \* "idle", "running", "done", "aborted"
  idx,                   \* position in batch of the next key of the for loop
  batch,                 \* the keys the for loop of the run iterates over
  args,                  \* the arguments of the run (prompt_type or provider)
  solved_conflicts_keys, \* the set load_solved_conflict_keys returned
  last,                  \* key processed last, the reply the oracle had for it
                         \* and what the oracle client returned or raised
  oracleCalls,           \* keys an oracle request was issued for in this run
  failed,                \* [key, why]: the keys whose processing failed in this run
  prevFailed,            \* the keys that failed in the run before, of the same workflow
  results,               \* prod: the results dictionary being returned
  disambiguated_grouped, \* prod: the grouping being returned
  issues,                \* prod: keys create_issue was called for
  cIn,                   \* single-call specifications: the call's arguments
  cOut,                  \* single-call specifications: the value returned, or NotCalled
  workers,               \* appends: per worker, the key it is appending and the
                         \* writes of that append still to be made
  appends,               \* appends: the keys whose append completed, those in
                         \* flight at a crash, and what else the appends went through
  raw_files              \* make_inferences: the files under raw_results_path, by path

vars == <<mode, conflicts, disconnected_entries, ledger, messages_file, prepRuns,
          wf, pc, idx, batch, args, solved_conflicts_keys, last, oracleCalls,
          failed, prevFailed, results, disambiguated_grouped, issues, cIn, cOut,
          workers, appends, raw_files>>

workflowVars == <<conflicts, disconnected_entries, ledger, messages_file, prepRuns,
                  wf, pc, idx, batch, args, solved_conflicts_keys, last, oracleCalls,
                  failed, prevFailed, results, disambiguated_grouped, issues,
                  workers, appends, raw_files>>

NotCalled == [called |-> FALSE]
NoChunkInput == [kind |-> "none"]
NoKey == [key |-> 0, reply |-> NoReply, answer |-> NoAnswer, steps |-> <<>>]
EmptyDict == <<>>

Workers == {"w1", "w2"}
IdleWorker == [key |-> 0, writes |-> <<>>]
NoAppends == [begun |-> 0, completed |-> {}, crashed |-> {}, overlapped |-> FALSE]

\* the workflow variables before any run has started
WorkflowIdle ==
  /\ workers = [w \in Workers |-> IdleWorker]
  /\ appends = NoAppends
  /\ raw_files = EmptyDict
  /\ messages_file = NoFile
  /\ prepRuns = 0
  /\ wf = "none"
  /\ pc = "idle"
  /\ idx = 1
  /\ batch = <<>>
  /\ args = EmptyDict
  /\ solved_conflicts_keys = {}
  /\ last = NoKey
  /\ oracleCalls = {}
  /\ failed = {}
  /\ prevFailed = {}
  /\ results = EmptyDict
  /\ disambiguated_grouped = EmptyDict
  /\ issues = {}

\* ------------------------------------------------ chunking specification
TextInputs ==
  [kind : {"text"}, text : SeqsUpTo(Chars, MaxTextLen),
   max_tokens : 1..MaxLimit, enc : Encoders]

MkEntries(weights) == [i \in 1..Len(weights) |-> [id |-> i, tok |-> weights[i]]]

EntryInputs ==
  [kind : {"entries"},
   entries : {MkEntries(w) : w \in SeqsUpTo(1..MaxTok, MaxEntries)},
   max_tokens : 1..MaxLimit]

ChunkInit ==
  /\ mode = "chunk"
  /\ cIn \in TextInputs \cup EntryInputs
  /\ cOut = NotCalled
  /\ conflicts = EmptyDict
  /\ disconnected_entries = {}
  /\ ledger = NoFile
  /\ WorkflowIdle

CallChunkText ==
  /\ cIn.kind = "text"
  /\ cOut = NotCalled
  /\ cOut' = [called |-> TRUE, chunks |-> chunk_text(cIn.text, cIn.max_tokens, cIn.enc)]
  /\ UNCHANGED <<mode, cIn, workflowVars>>

CallChunkEntries ==
  /\ cIn.kind = "entries"
  /\ cOut = NotCalled
  /\ cOut' = [called |-> TRUE, chunks |-> chunk_entries(cIn.entries, cIn.max_tokens)]
  /\ UNCHANGED <<mode, cIn, workflowVars>>

ChunkNext == CallChunkText \/ CallChunkEntries

SpecChunk == ChunkInit /\ [][ChunkNext]_vars

\* ------------------------------------- build_full_conflict, step by step
\* The URLs an entry may reference; "" is the URL of a repository record
\* that has no 'url' (repo.get('url', '')).
Urls == {"", "https://example.org/tool", "https://github.com/org/tool",
         "https://gitlab.com/org/tool"}

RepoKinds == {"github", "gitlab", "other"}

\* The resolved URLs the enricher is given: one of the shape each source
\* strategy expects, one per source without that shape, and one that holds
\* the names of two sources.
Links == {"https://example.org/tool",
          "https://github.com/org/tool", "https://github.com/org",
          "https://gitlab.com/org/tool", "https://gitlab.com/org",
          "https://pypi.org/project/tool/",
          "https://sourceforge.net/projects/tool/",
          "https://bitbucket.org/org/tool", "https://bitbucket.org/org",
          "https://git.bioconductor.org/packages/tool",
          "https://bitbucket.org/org/github.com-mirror"}

\* the links that contain text: the links with text in link
Containing(text) ==
  CASE text = "github.com" ->
         {"https://github.com/org/tool", "https://github.com/org",
          "https://bitbucket.org/org/github.com-mirror"}
    [] text = "gitlab.com" -> {"https://gitlab.com/org/tool", "https://gitlab.com/org"}
    [] text = "pypi.org/project/" -> {"https://pypi.org/project/tool/"}
    [] text = "sourceforge.net/projects/" -> {"https://sourceforge.net/projects/tool/"}
    [] text = "bitbucket.org" ->
         {"https://bitbucket.org/org/tool", "https://bitbucket.org/org",
          "https://bitbucket.org/org/github.com-mirror"}
    [] text = "git.bioconductor" -> {"https://git.bioconductor.org/packages/tool"}
    [] OTHER -> {}

\* "<host>" in url
HostIn(host, url) == url \in Containing(host)

Range(f) == {f[i] : i \in DOMAIN f}

\* the test of strip_content_fields that sends a repository URL to all_repos
is_hosted_repo(repo) ==
  \/ repo.kind = "github" /\ HostIn("github.com", repo.url)
  \/ repo.kind = "bitbucket" /\ HostIn("bitbucket.com", repo.url)
  \/ repo.kind = "gitlab" /\ HostIn("gitlab.com", repo.url)

\* strip_content_fields(entry): the copy it returns, and what it adds to
\* all_webpages and all_repos.  The copy keeps every field of the entry.
strip_content_fields(entry) ==
  [entry |-> entry,
   all_webpages |-> Range(entry.webpage)
                    \cup {r.url : r \in {q \in Range(entry.repository) : ~is_hosted_repo(q)}},
   all_repos |-> {r.url : r \in {q \in Range(entry.repository) : is_hosted_repo(q)}}]

\* ------------------------------------------------------- the link enricher
\* link.split('/')
split_slash(link) ==
  CASE link = "https://example.org/tool" -> <<"https:", "", "example.org", "tool">>
    [] link = "https://github.com/org/tool" -> <<"https:", "", "github.com", "org", "tool">>
    [] link = "https://github.com/org" -> <<"https:", "", "github.com", "org">>
    [] link = "https://gitlab.com/org/tool" -> <<"https:", "", "gitlab.com", "org", "tool">>
    [] link = "https://gitlab.com/org" -> <<"https:", "", "gitlab.com", "org">>
    [] link = "https://pypi.org/project/tool/" ->
         <<"https:", "", "pypi.org", "project", "tool", "">>
    [] link = "https://sourceforge.net/projects/tool/" ->
         <<"https:", "", "sourceforge.net", "projects", "tool", "">>
    [] link = "https://bitbucket.org/org/tool" -> <<"https:", "", "bitbucket.org", "org", "tool">>
    [] link = "https://bitbucket.org/org" -> <<"https:", "", "bitbucket.org", "org">>
    [] link = "https://git.bioconductor.org/packages/tool" ->
         <<"https:", "", "git.bioconductor.org", "packages", "tool">>
    [] link = "https://bitbucket.org/org/github.com-mirror" ->
         <<"https:", "", "bitbucket.org", "org", "github.com-mirror">>

\* What the network answers during one call of enrich_link.  A value that
\* is fetched is "data" when the fetch gives it and "None" when it does not;
\* a field of the record that was never set is "absent".
Webs ==
  [redirect : {"fails", "same"} \cup Links,
   github : BOOLEAN,
   gitlab : {"readme_url", "no_readme_url", "not_200", "ConnectionError"},
   pypi : BOOLEAN,
   bitbucket : {"main_branch", "no_main_branch", "not_200"},
   readme : BOOLEAN,
   page : BOOLEAN]

\* a redirect resolution that falls back on the URL it was given
get_redirect_or_url(url, web) ==
  IF web.redirect \in {"fails", "same"} THEN url ELSE web.redirect

\* get_redirect(url): response.url, or False when requests.head raises
get_redirect(url, web) ==
  IF web.redirect = "fails" THEN "False"
  ELSE IF web.redirect = "same" THEN url ELSE web.redirect

\* requests that return None when they fail
request_github_metadata(web) == IF web.github THEN "data" ELSE "None"
request_github_readme(web) == IF web.github /\ web.readme THEN "data" ELSE "None"
get_gitlab_repo_readme(web) == IF web.readme THEN "data" ELSE "None"
get_pypi_project_info(web) == IF web.pypi THEN "data" ELSE "None"
get_bitbucket_readme(web) == IF web.readme THEN "data" ELSE "None"
get_link_content(web) == IF web.page THEN "data" ELSE "None"

\* the pattern https?://<host>/([^/]+)/([^/]+) of parse_gitlab_repo_url and of
\* the Bitbucket branch
repo_pattern_matches(host, link) ==
  LET parts == split_slash(link)
  IN  Len(parts) >= 5 /\ parts[3] = host /\ parts[4] /= "" /\ parts[5] /= ""

\* get_gitlab_repo_metadata(repo_url): raises for a URL without
\* namespace/repo, for a request that fails and for a status that is not 200
get_gitlab_repo_metadata(link, web) ==
  IF ~repo_pattern_matches("gitlab.com", link) THEN Raised("ValueError")
  ELSE IF web.gitlab = "ConnectionError" THEN Raised("ConnectionError")
  ELSE IF web.gitlab = "not_200" THEN Raised("Exception")
  ELSE [raised |-> FALSE, metadata |-> "data", readme_url |-> web.gitlab = "readme_url"]

\* get_bitbucket_metadata(user, repo): the metadata, or {"error": ...}
get_bitbucket_metadata(link, web) ==
  IF ~repo_pattern_matches("bitbucket.org", link) \/ web.bitbucket = "not_200"
  THEN [metadata |-> "error", main_branch |-> FALSE]
  ELSE [metadata |-> "data", main_branch |-> web.bitbucket = "main_branch"]

\* extract_sourceforge_project_info(content): without a page the result is
\* the dictionary it starts from, which has no description and no sections
extract_sourceforge_project_info(content) == IF content = "data" THEN "data" ELSE "blank"

\* new_link = {'url': link}
NewLink(url) ==
  [url |-> url, repo_metadata |-> "absent", readme_content |-> "absent",
   project_metadata |-> "absent", content |-> "absent"]

Enriching(new_link, processed, strategies) ==
  [raised |-> FALSE, new_link |-> new_link, processed |-> processed,
   strategies |-> strategies]

\* if "github.com" in link ... elif "gitlab.com" in link ... elif
\* "pypi.org/project/" in link
first_chain(link, web, new_link) ==
  IF HostIn("github.com", link)
  THEN IF Len(split_slash(link)) < 5
       THEN Enriching(new_link, FALSE, <<"github">>)
       ELSE Enriching([new_link EXCEPT !.repo_metadata = request_github_metadata(web),
                                       !.readme_content = request_github_readme(web)],
                      TRUE, <<"github">>)
  ELSE IF HostIn("gitlab.com", link)
  THEN LET got == get_gitlab_repo_metadata(link, web)
       IN  IF got.raised
           THEN [raised |-> TRUE, error |-> got.error, strategies |-> <<"gitlab">>]
           ELSE IF got.readme_url
                THEN Enriching([new_link EXCEPT !.repo_metadata = got.metadata,
                                                !.readme_content = get_gitlab_repo_readme(web)],
                               TRUE, <<"gitlab">>)
                ELSE Enriching([new_link EXCEPT !.repo_metadata = got.metadata],
                               FALSE, <<"gitlab">>)
  ELSE IF HostIn("pypi.org/project/", link)
  THEN Enriching([new_link EXCEPT !.project_metadata = get_pypi_project_info(web)],
                 TRUE, <<"pypi">>)
  ELSE Enriching(new_link, FALSE, <<>>)

\* if any(alt in link for alt in sourceforge_alternatives) ... elif
\* "bitbucket.org" in link ... elif "git.bioconductor" in link
second_chain(link, web, st) ==
  IF \E alt \in {"sourceforge.net/projects/", "sf.net/p/", "sourceforge.net/p/"} :
       HostIn(alt, link)
  THEN Enriching([st.new_link EXCEPT !.project_metadata =
                    extract_sourceforge_project_info(get_link_content(web))],
                 TRUE, Append(st.strategies, "sourceforge"))
  ELSE IF HostIn("bitbucket.org", link)
  THEN LET got == get_bitbucket_metadata(link, web)
       IN  Enriching([st.new_link EXCEPT
                        !.repo_metadata = got.metadata,
                        !.readme_content =
                           IF got.main_branch THEN get_bitbucket_readme(web) ELSE @],
                     TRUE, Append(st.strategies, "bitbucket"))
  ELSE IF HostIn("git.bioconductor", link)
  THEN Enriching([st.new_link EXCEPT !.repo_metadata = "data"],
                 TRUE, Append(st.strategies, "bioconductor"))
  ELSE st

\* if not processed: the page is rendered and its main text extracted
generic(web, st) ==
  IF st.processed THEN st
  ELSE Enriching(IF get_link_content(web) = "data"
                 THEN [st.new_link EXCEPT !.content = "data"]
                 ELSE st.new_link,
                 st.processed, Append(st.strategies, "generic"))

\* enrich_link(link): the record it returns and the strategies it ran, or
\* the exception it raises
enrich_link(url, web) ==
  LET link == get_redirect(url, web)
  IN  IF link = "False"
      THEN [raised |-> FALSE, new_link |-> NewLink(url), strategies |-> <<>>]
      ELSE LET first == first_chain(link, web, NewLink(url))
           IN  IF first.raised THEN first
               ELSE LET done == generic(web, second_chain(link, web, first))
                    IN  [raised |-> FALSE, new_link |-> done.new_link,
                         strategies |-> done.strategies]

\* the labels enrich_and_collect_content files the fields of the record
\* under: those of the fields for which enriched.get(field) is true
labels_of(enriched) ==
  {label \in {"Content", "README content", "Repository metadata", "Project metadata"} :
     \/ label = "Content" /\ enriched.content \notin {"absent", "None"}
     \/ label = "README content" /\ enriched.readme_content \notin {"absent", "None"}
     \/ label = "Repository metadata" /\ enriched.repo_metadata \notin {"absent", "None"}
     \/ label = "Project metadata" /\ enriched.project_metadata \notin {"absent", "None"}}

\* the network of the assembly of a conflict: every request is answered,
\* the GitLab API with status 200 or not
WebOf(gitlab_up) ==
  [redirect |-> "same", github |-> TRUE,
   gitlab |-> IF gitlab_up THEN "readme_url" ELSE "not_200",
   pypi |-> TRUE, bitbucket |-> "main_branch", readme |-> TRUE, page |-> TRUE]

\* a loop that skips only the URLs it has seen
skips_seen_only(url, seen) == url \in seen

\* the test of the loop of enrich_and_collect_content: the URL is skipped
skips_url(url, seen) == url \in seen \/ url = ""

\* contents[url] = value on a dictionary kept in insertion order
dict_set(contents, url, value) ==
  IF \E i \in DOMAIN contents : contents[i].url = url
  THEN [i \in DOMAIN contents |->
          IF contents[i].url = url THEN [url |-> url, labels |-> value] ELSE contents[i]]
  ELSE Append(contents, [url |-> url, labels |-> value])

\* the for loop of enrich_and_collect_content over the URLs left; calls is
\* the list of URLs enrich_link has been awaited for
RECURSIVE enrich_and_collect_loop(_, _, _, _, _)
enrich_and_collect_loop(url_list, gitlab_up, contents, seen, calls) ==
  IF url_list = <<>>
  THEN [raised |-> FALSE, contents |-> contents, calls |-> calls]
  ELSE LET url == Head(url_list)
       IN  IF skips_url(url, seen)
           THEN enrich_and_collect_loop(Tail(url_list), gitlab_up, contents, seen, calls)
           ELSE LET enriched == enrich_link(url, WebOf(gitlab_up))
                IN  IF enriched.raised
                    THEN [raised |-> TRUE, error |-> enriched.error,
                          calls |-> Append(calls, url)]
                    ELSE enrich_and_collect_loop(Tail(url_list), gitlab_up,
                                                 dict_set(contents, url, labels_of(enriched.new_link)),
                                                 seen \cup {url}, Append(calls, url))

enrich_and_collect_content(url_list, gitlab_up) ==
  enrich_and_collect_loop(url_list, gitlab_up, <<>>, {}, <<>>)

\* list(all_links): the elements of a set in some order
ListsOf(S) ==
  {l \in [1..Cardinality(S) -> S] : \A i, j \in DOMAIN l : l[i] = l[j] => i = j}

\* all_links of build_full_conflict
all_links(conflict) ==
  LET stripped == {strip_content_fields(e) :
                     e \in Range(conflict.disconnected) \cup Range(conflict.remaining)}
      all_webpages == UNION {st.all_webpages : st \in stripped}
      all_repos == UNION {st.all_repos : st \in stripped}
  IN  all_webpages \cup all_repos

\* the body of build_full_conflict for one iteration order of all_links
new_conflict(conflict, url_list, gitlab_up) ==
  LET collected == enrich_and_collect_content(url_list, gitlab_up)
  IN  IF collected.raised
      THEN [called |-> TRUE, raised |-> TRUE, error |-> collected.error,
            calls |-> collected.calls]
      ELSE [called |-> TRUE, raised |-> FALSE,
            disconnected |->
              [i \in DOMAIN conflict.disconnected |->
                 strip_content_fields(conflict.disconnected[i]).entry],
            remaining |->
              [i \in DOMAIN conflict.remaining |->
                 strip_content_fields(conflict.remaining[i]).entry],
            webpage_contents |-> collected.contents,
            calls |-> collected.calls]

\* the entries of the evaluation cases: at most one webpage and one
\* repository record each
LinkedEntries ==
  [id : {1}, name : {"tool"},
   webpage : {<<>>} \cup {<<u>> : u \in Urls \ {""}},
   repository : {<<>>} \cup {<<r>> : r \in [kind : RepoKinds, url : Urls]}]

ConflictInputs ==
  [kind : {"conflict"},
   conflict : [disconnected : {<<e>> : e \in LinkedEntries},
               remaining : {<<e>> : e \in LinkedEntries}],
   gitlab_up : BOOLEAN]

ConflictInit ==
  /\ mode = "conflict"
  /\ cIn \in ConflictInputs
  /\ cOut = NotCalled
  /\ conflicts = EmptyDict
  /\ disconnected_entries = {}
  /\ ledger = NoFile
  /\ WorkflowIdle

CallBuildFullConflict ==
  /\ cIn.kind = "conflict"
  /\ cOut = NotCalled
  /\ \E url_list \in ListsOf(all_links(cIn.conflict)) :
       cOut' = new_conflict(cIn.conflict, url_list, cIn.gitlab_up)
  /\ UNCHANGED <<mode, cIn, workflowVars>>

ConflictNext == CallBuildFullConflict

SpecConflict == ConflictInit /\ [][ConflictNext]_vars

\* ------------------------------------------------- enrich_link alone
EnrichInit ==
  /\ mode = "enrich"
  /\ cIn \in [kind : {"enrich"}, link : Links, web : Webs]
  /\ cOut = NotCalled
  /\ conflicts = EmptyDict
  /\ disconnected_entries = {}
  /\ ledger = NoFile
  /\ WorkflowIdle

\* enriched = await enrich_link(url), and the labels the record is filed under
CallEnrichLink ==
  /\ cIn.kind = "enrich"
  /\ cOut = NotCalled
  /\ LET enriched == enrich_link(cIn.link, cIn.web)
     IN  cOut' = [called |-> TRUE, enriched |-> enriched,
                  labels |-> IF enriched.raised THEN {} ELSE labels_of(enriched.new_link)]
  /\ UNCHANGED <<mode, cIn, workflowVars>>

EnrichNext == CallEnrichLink

SpecEnrich == EnrichInit /\ [][EnrichNext]_vars

\* ------------------------------------------------------- build_prompt
\* a selection that takes several disconnected entries with one remaining
\* entry for the template of several remaining ones
select_template_from_one_remaining(n_disconnected, n_remaining) ==
  IF n_disconnected = 1 /\ n_remaining = 1 THEN "disconnected_entries"
  ELSE IF n_disconnected > 1 /\ n_remaining = 0 THEN "disconnected_entries"
  ELSE IF n_disconnected = 1 /\ n_remaining > 1 THEN "one_disconnected_several_remaining"
  ELSE IF n_disconnected > 1 /\ n_remaining >= 1
       THEN "several_disconnected_several_remaining"
  ELSE "ValueError"

\* the if / elif chain of build_prompt: the name of the template, or
\* "ValueError" for the else branch
select_template(n_disconnected, n_remaining) ==
  IF n_disconnected = 1 /\ n_remaining = 1 THEN "disconnected_entries"
  ELSE IF n_disconnected > 1 /\ n_remaining = 0 THEN "disconnected_entries"
  ELSE IF n_disconnected = 1 /\ n_remaining > 1 THEN "one_disconnected_several_remaining"
  ELSE IF n_disconnected > 1 /\ n_remaining > 1
       THEN "several_disconnected_several_remaining"
  ELSE "ValueError"

\* build_prompt(disconnected, remaining): the template rendered and the
\* messages built with it, or the exception raised
build_prompt(disconnected, remaining) ==
  LET template == select_template(Len(disconnected), Len(remaining))
  IN  IF template = "ValueError" THEN Raised("ValueError")
      ELSE LET built == build_chat_messages_with_disconnected(
                          [disconnected |-> disconnected, remaining |-> remaining,
                           webpage_contents |-> <<>>])
           IN  IF built.raised THEN built
               ELSE [raised |-> FALSE, template |-> template, messages |-> built.messages]

PromptInit ==
  /\ mode = "prompt"
  /\ cIn \in [kind : {"prompt"},
             disconnected : {MkEntries(w) : w \in SeqsUpTo(1..MaxTok, MaxEntries)},
             remaining : {MkEntries(w) : w \in SeqsUpTo(1..MaxTok, MaxEntries)}]
  /\ cOut = NotCalled
  /\ conflicts = EmptyDict
  /\ disconnected_entries = {}
  /\ ledger = NoFile
  /\ WorkflowIdle

CallBuildPrompt ==
  /\ cIn.kind = "prompt"
  /\ cOut = NotCalled
  /\ cOut' = [called |-> TRUE, built |-> build_prompt(cIn.disconnected, cIn.remaining)]
  /\ UNCHANGED <<mode, cIn, workflowVars>>

PromptNext == CallBuildPrompt

SpecPrompt == PromptInit /\ [][PromptNext]_vars

\* ------------------------------------------------- parse_result alone
AnswerTokens == {"~~~", "~~~json", "~~~python", "{", "}", "Same"}

\* the values handed to parse_result: the answer text of the oracle client
\* (make_inferences line 79), what make_inference returned
\* (disambiguate_disconnected_entries line 516)
AnswerInputs ==
  [kind : {"answer"},
   value : {Str(tokens) : tokens \in SeqsUpTo(AnswerTokens, MaxAnswerLen)}
           \cup {make_inference(reply) : reply \in Replies}]

ParseInit ==
  /\ mode = "parse"
  /\ cIn \in AnswerInputs
  /\ cOut = NotCalled
  /\ conflicts = EmptyDict
  /\ disconnected_entries = {}
  /\ ledger = NoFile
  /\ WorkflowIdle

CallParseResult ==
  /\ cIn.kind = "answer"
  /\ cOut = NotCalled
  /\ cOut' = [called |-> TRUE, result |-> parse_result(cIn.value)]
  /\ UNCHANGED <<mode, cIn, workflowVars>>

ParseNext == CallParseResult

SpecParse == ParseInit /\ [][ParseNext]_vars

\* --------------------------------------- appends to the results file
\* the result of the records appended here
SomeResult == parse_result(JsonText("Same")).value

\* The writes that reach the file for one append.  json.dump writes the text
\* of the record to the buffered file piece by piece, f.write("\n") adds the
\* newline, and leaving the with block flushes what is left: the text gets to
\* the file in one write or in several, by the size of the record.
RECURSIVE WriteSplits(_)
WriteSplits(text) ==
  IF Len(text) <= 1 THEN {<<text>>}
  ELSE {<<text>>}
       \cup UNION {{<<SubSeq(text, 1, n)>> \o rest :
                      rest \in WriteSplits(SubSeq(text, n + 1, Len(text)))} :
                   n \in 1..(Len(text) - 1)}

notLedgerVars == <<mode, conflicts, disconnected_entries, messages_file, prepRuns,
                   wf, pc, idx, batch, args, solved_conflicts_keys, last, oracleCalls,
                   failed, prevFailed, results, disambiguated_grouped, issues,
                   raw_files>>

LedgerInit ==
  /\ mode = "ledger"
  /\ cIn = NoChunkInput
  /\ cOut = NotCalled
  /\ conflicts = EmptyDict
  /\ disconnected_entries = {}
  /\ ledger = NoFile
  /\ WorkflowIdle

\* with open(results_file, "a") as f: a worker starts to append {key: result}
BeginAppend(w) ==
  /\ mode = "ledger"
  /\ cOut = NotCalled
  /\ workers[w].key = 0
  /\ appends.begun < MaxAppends
  /\ \E key \in Keys :
       /\ \A o \in Workers : workers[o].key /= key
       /\ \E writes \in WriteSplits(LedgerLine(key, SomeResult) \o <<Newline>>) :
            workers' = [workers EXCEPT ![w] = [key |-> key, writes |-> writes]]
  /\ ledger' = [ledger EXCEPT !.exists = TRUE]
  /\ appends' = [appends EXCEPT
                   !.begun = @ + 1,
                   !.overlapped = @ \/ \E o \in Workers : workers[o].key /= 0]
  /\ UNCHANGED <<notLedgerVars, cIn, cOut>>

\* the next write of the append reaches the end of the file; after the
\* last one the with block is left
WriteToFile(w) ==
  /\ mode = "ledger"
  /\ cOut = NotCalled
  /\ workers[w].writes /= <<>>
  /\ ledger' = [ledger EXCEPT !.text = @ \o Head(workers[w].writes)]
  /\ IF Len(workers[w].writes) = 1
     THEN /\ workers' = [workers EXCEPT ![w] = IdleWorker]
          /\ appends' = [appends EXCEPT !.completed = @ \cup {workers[w].key}]
     ELSE /\ workers' = [workers EXCEPT ![w].writes = Tail(@)]
          /\ UNCHANGED appends
  /\ UNCHANGED <<notLedgerVars, cIn, cOut>>

\* the process of the worker dies during its append; a later run of the
\* worker starts from the file as it is
Crash(w) ==
  /\ mode = "ledger"
  /\ cOut = NotCalled
  /\ workers[w].key /= 0
  /\ workers' = [workers EXCEPT ![w] = IdleWorker]
  /\ appends' = [appends EXCEPT !.crashed = @ \cup {workers[w].key}]
  /\ UNCHANGED <<notLedgerVars, ledger, cIn, cOut>>

\* a run reads the solved keys from the file as it is
LoadSolvedKeys ==
  /\ mode = "ledger"
  /\ cOut = NotCalled
  /\ cIn' = [kind |-> "ledger", file |-> ledger]
  /\ cOut' = [called |-> TRUE, solved_keys |-> load_solved_conflict_keys(ledger)]
  /\ UNCHANGED <<notLedgerVars, ledger, workers, appends>>

LedgerNext ==
  \/ \E w \in Workers : BeginAppend(w)
  \/ \E w \in Workers : WriteToFile(w)
  \/ \E w \in Workers : Crash(w)
  \/ LoadSolvedKeys

SpecLedger == LedgerInit /\ [][LedgerNext]_vars

\* ------------------------------------ write_to_results_file, call by call
\* The paths a results file is given by: its directory part, and whether
\* that directory is there before the first call.  The directory part of a
\* bare file name is the empty string.
ResultsFiles ==
  {[dirname |-> "results", dir_exists |-> TRUE],
   [dirname |-> "results", dir_exists |-> FALSE],
   [dirname |-> "", dir_exists |-> TRUE]}

\* os.makedirs(os.path.dirname(results_file), exist_ok=True): creates what
\* is missing, and raises FileNotFoundError for the empty path
makedirs(dirname) == IF dirname = "" THEN Raised("FileNotFoundError") ELSE [raised |-> FALSE]

\* write_to_results_file(result, results_file): the file after the call;
\* an exception is logged and the call returns
write_to_results_file(file, results_file, key, result) ==
  IF makedirs(results_file.dirname).raised THEN file
  ELSE append_line(file, json_dump(key, result))

AppendInit ==
  /\ mode = "append"
  /\ cIn \in [kind : {"append"}, results_file : ResultsFiles]
  /\ cOut = NotCalled
  /\ conflicts = EmptyDict
  /\ disconnected_entries = {}
  /\ ledger = NoFile
  /\ WorkflowIdle

\* one more call write_to_results_file({key: result}, results_file); before
\* is the lines of the file when the call is made
CallWriteToResultsFile ==
  /\ mode = "append"
  /\ appends.begun < MaxAppends
  /\ \E key \in Keys, result \in {SomeResult, EmptyResult} :
       /\ ledger' = write_to_results_file(ledger, cIn.results_file, key, result)
       /\ appends' = [appends EXCEPT !.begun = @ + 1, !.completed = @ \cup {key}]
  /\ cOut' = [called |-> TRUE, before |-> read_lines(ledger.text, <<>>)]
  /\ UNCHANGED <<notLedgerVars, cIn, workers>>

AppendNext == CallWriteToResultsFile

SpecAppend == AppendInit /\ [][AppendNext]_vars

\* --------------------------------------------------- the batch workflows
\* every run starts with fresh local variables
StartRun(workflow, keys, arguments, solved) ==
  /\ wf' = workflow
  /\ batch' = keys
  /\ args' = arguments
  /\ solved_conflicts_keys' = solved
  /\ idx' = 1
  /\ pc' = IF keys = <<>> THEN "done" ELSE "running"
  /\ last' = NoKey
  /\ oracleCalls' = {}
  /\ failed' = {}
  /\ prevFailed' = IF workflow = wf THEN {f.key : f \in failed} ELSE {}
  /\ results' = EmptyDict
  /\ disambiguated_grouped' = EmptyDict

\* the for loop moves on to the next key, or the function returns
NextKey ==
  /\ idx' = idx + 1
  /\ pc' = IF idx = Len(batch) THEN "done" ELSE "running"

\* an exception leaves the for loop and the function
Abort ==
  /\ idx' = idx + 1
  /\ pc' = "aborted"

BenchInit ==
  /\ mode = "bench"
  /\ conflicts \in [Keys -> ConflictShapes]
  /\ disconnected_entries = {}
  /\ ledger = NoFile
  /\ WorkflowIdle
  /\ cIn = NoChunkInput
  /\ cOut = NotCalled

\* the results file an earlier deployment left: per key no line, or one line
RECURSIVE LedgerOf(_, _)
LedgerOf(f, k) ==
  IF k > NumKeys THEN <<>>
  ELSE (IF f[k] = "absent" THEN <<>>
        ELSE <<LedgerLine(k, parse_result(JsonText(f[k])).value)>>) \o LedgerOf(f, k + 1)

InitLedgers ==
  {append_lines(NoFile, LedgerOf(f, 1)) : f \in [Keys -> {"absent"} \cup Verdicts]}

ProdInit ==
  /\ mode = "prod"
  /\ conflicts = EmptyDict
  /\ disconnected_entries \in SUBSET Keys
  /\ ledger \in InitLedgers
  /\ WorkflowIdle
  /\ cIn = NoChunkInput
  /\ cOut = NotCalled

\* ---- prepare_messages_file
StartPrepare ==
  /\ mode = "bench"
  /\ pc /= "running"
  /\ prepRuns < MaxPrepareRuns
  /\ prepRuns' = prepRuns + 1
  /\ \E prompt_type \in PromptTypes :
       StartRun("prepare", KeyOrder, [prompt_type |-> prompt_type], {})
  /\ UNCHANGED <<mode, conflicts, disconnected_entries, ledger, messages_file,
                 issues, cIn, cOut, workers, appends, raw_files>>

\* one iteration of the for loop of prepare_messages_file
PrepareKey ==
  /\ wf = "prepare"
  /\ pc = "running"
  /\ LET key == batch[idx]
         full_conflict == build_full_conflict(conflicts[key])
         built == IF full_conflict.raised THEN full_conflict
                  ELSE build_prompt_benchmarking(full_conflict, args.prompt_type)
     IN  /\ last' = [key |-> key, reply |-> NoReply, answer |-> NoAnswer, steps |-> <<>>]
         /\ IF built.raised
            THEN /\ failed' = failed \cup {[key |-> key, why |-> built.error]}
                 /\ Abort
                 /\ UNCHANGED messages_file
            ELSE /\ messages_file' =
                      append_line(messages_file, json_dump(key, built.messages))
                 /\ NextKey
                 /\ UNCHANGED failed
  /\ UNCHANGED <<mode, conflicts, disconnected_entries, ledger, prepRuns, wf, batch,
                 args, solved_conflicts_keys, oracleCalls, prevFailed, results,
                 disambiguated_grouped, issues, cIn, cOut, workers, appends, raw_files>>

\* ---- make_inferences
REQUESTS_PER_MINUTE == 20
DELAY_BETWEEN_REQUESTS == 60 \div REQUESTS_PER_MINUTE

\* a loop that never sleeps
throttles_none(provider) == FALSE

\* if provider == "openrouter": time.sleep(DELAY_BETWEEN_REQUESTS)
throttled(provider) == provider = "openrouter"

\* what an iteration that does not skip its key does up to the return of
\* the oracle client, in order
iteration_steps(provider, answer) ==
  (IF throttled(provider)
   THEN <<[op |-> "sleep", seconds |-> DELAY_BETWEEN_REQUESTS]>> ELSE <<>>)
  \o <<[op |-> "query", attempts |-> answer.attempts]>>

\* the text of the conflict keys of the messages file
KeyText(key) ==
  CASE key = 1 -> <<"a", " ", "b">>
    [] key = 2 -> <<"a", "_", "b">>
    [] OTHER -> <<"c">>

\* str.replace(old, new) for a single character
replace(text, old, new) == [i \in DOMAIN text |-> IF text[i] = old THEN new ELSE text[i]]

\* key.replace(" ", "_").replace("/", "_")
key_transformed(key) == replace(replace(KeyText(key), " ", "_"), "/", "_")

\* f"{raw_results_path}/raw_results_{key_transformed}.json"
raw_result_path(key) == [file |-> "raw_results", name |-> key_transformed(key)]
\* f"{raw_results_path}/meta_{key_transformed}.json"
meta_file_path(key) == [file |-> "meta", name |-> key_transformed(key)]

\* open(path, 'w'): the file holds the result, whatever it held before
save_raw_results(files, result, path) ==
  [q \in DOMAIN files \cup {path} |-> IF q = path THEN <<result>> ELSE files[q]]

\* open(path, 'a'): the record is added at the end of the file
save_inference_stats(files, meta, path) ==
  [q \in DOMAIN files \cup {path} |->
     IF q = path
     THEN (IF path \in DOMAIN files THEN files[path] ELSE <<>>) \o <<meta>>
     ELSE files[q]]

StartInfer ==
  /\ mode = "bench"
  /\ pc /= "running"
  /\ messages_file.exists
  /\ \E provider \in Providers :
       StartRun("infer", parse_messages_file(messages_file), [provider |-> provider],
                load_solved_conflict_keys(ledger))
  /\ UNCHANGED <<mode, conflicts, disconnected_entries, ledger, messages_file,
                 prepRuns, issues, cIn, cOut, workers, appends, raw_files>>

\* one iteration of the for loop of make_inferences
InferKey ==
  /\ wf = "infer"
  /\ pc = "running"
  /\ LET key == batch[idx]
     IN  IF already_solved(key, solved_conflicts_keys)
         THEN /\ last' = [key |-> key, reply |-> NoReply, answer |-> NoAnswer, steps |-> <<>>]
              /\ NextKey
              /\ UNCHANGED <<ledger, oracleCalls, failed, raw_files>>
         ELSE \E reply \in Replies :
                LET answer == query(args.provider, reply)
                IN  /\ last' = [key |-> key, reply |-> reply, answer |-> answer,
                                 steps |-> iteration_steps(args.provider, answer)]
                    /\ raw_files' = IF answer.raised THEN raw_files
                                    ELSE save_inference_stats(
                                           save_raw_results(raw_files,
                                                            [key |-> key, text |-> answer.content],
                                                            raw_result_path(key)),
                                           [key |-> key], meta_file_path(key))
                    /\ oracleCalls' = oracleCalls \cup {key}
                    /\ IF answer.raised
                       THEN /\ failed' = failed \cup {[key |-> key, why |-> answer.error]}
                            /\ Abort
                            /\ UNCHANGED ledger
                       ELSE LET parsed == parse_result(answer.content)
                            IN  IF parsed.raised
                                THEN /\ failed' = failed \cup {[key |-> key, why |-> parsed.error]}
                                     /\ Abort
                                     /\ UNCHANGED ledger
                                ELSE LET parsed_result == parsed.value
                                     IN  /\ ledger' = append_line(ledger,
                                                                 LedgerLine(key, parsed_result))
                                         /\ failed' =
                                              IF parsed_result = EmptyResult
                                              THEN failed \cup {[key |-> key, why |-> "no_result"]}
                                              ELSE failed
                                         /\ NextKey
  /\ UNCHANGED <<mode, conflicts, disconnected_entries, messages_file, prepRuns, wf,
                 batch, args, solved_conflicts_keys, prevFailed, results,
                 disambiguated_grouped, issues, cIn, cOut, workers, appends>>

\* ---- disambiguate_disconnected_entries
\* grouped_entries[key]['instances']
Instances(key) == [i \in DOMAIN MemberIds |-> <<key, MemberIds[i]>>]

\* line 509: build_full_conflict is a coroutine function and is called
\* without await, so full_conflict is a coroutine object
unawaited_build_full_conflict == [coroutine |-> TRUE]

NoEffect ==
  [called |-> {}, lines |-> <<>>, results |-> EmptyDict, grouped |-> EmptyDict,
   issues |-> {}]

\* the try block (lines 506-529) for an unsolved disconnected key: what it
\* does to the oracle, the ledger, results, the grouping and the issues
\* before it returns or raises.  Line 510 subscripts the coroutine object;
\* line 515 calls make_inference without its arguments model and provider.
disambiguate_try(key, reply) ==
  LET full_conflict == unawaited_build_full_conflict
  IN  IF full_conflict.coroutine
      THEN [raised |-> TRUE, error |-> "TypeError: 'coroutine' object is not subscriptable",
            effect |-> NoEffect]
      ELSE [raised |-> TRUE, error |-> "TypeError: make_inference() missing model, provider",
            effect |-> NoEffect]

StartDisambiguate ==
  /\ mode = "prod"
  /\ pc /= "running"
  /\ StartRun("disambiguate", KeyOrder, EmptyDict, load_solved_conflict_keys(ledger))
  /\ UNCHANGED <<mode, conflicts, disconnected_entries, ledger, messages_file,
                 prepRuns, issues, cIn, cOut, workers, appends, raw_files>>

\* one iteration of the for loop of disambiguate_disconnected_entries
DisambiguateKey ==
  /\ wf = "disambiguate"
  /\ pc = "running"
  /\ LET key == batch[idx]
     IN  IF key \in disconnected_entries
         THEN IF key \notin solved_conflicts_keys
              THEN \E reply \in Replies :
                     LET try == disambiguate_try(key, reply)
                     IN  /\ last' = [key |-> key, reply |-> reply, answer |-> NoAnswer, steps |-> <<>>]
                         /\ oracleCalls' = oracleCalls \cup try.effect.called
                         /\ ledger' = append_lines(ledger, try.effect.lines)
                         /\ results' = try.effect.results @@ results
                         /\ disambiguated_grouped' =
                              try.effect.grouped @@ disambiguated_grouped
                         /\ issues' = issues \cup try.effect.issues
                         /\ IF try.raised
                            THEN /\ failed' = failed \cup {[key |-> key, why |-> try.error]}
                                 /\ Abort
                            ELSE /\ NextKey
                                 /\ UNCHANGED failed
              ELSE /\ last' = [key |-> key, reply |-> NoReply, answer |-> NoAnswer, steps |-> <<>>]
                   /\ NextKey
                   /\ UNCHANGED <<ledger, oracleCalls, failed, results,
                                  disambiguated_grouped, issues>>
         ELSE /\ last' = [key |-> key, reply |-> NoReply, answer |-> NoAnswer, steps |-> <<>>]
              /\ disambiguated_grouped' =
                   (key :> [instances |-> Instances(key)]) @@ disambiguated_grouped
              /\ NextKey
              /\ UNCHANGED <<ledger, oracleCalls, failed, results, issues>>
  /\ UNCHANGED <<mode, conflicts, disconnected_entries, messages_file, prepRuns, wf,
                 batch, args, solved_conflicts_keys, prevFailed, cIn, cOut, workers, appends, raw_files>>

Init == BenchInit \/ ProdInit

Next ==
  \/ StartPrepare
  \/ PrepareKey
  \/ StartInfer
  \/ InferKey
  \/ StartDisambiguate
  \/ DisambiguateKey

Spec == Init /\ [][Next]_vars

\* ------------------------------------------------ workflows: shorthands
FailedKeys == {f.key : f \in failed}
RunEnded == pc \in {"done", "aborted"}
\* the keys whose iteration of the for loop has been entered in this run
Visited == {batch[i] : i \in 1..(idx - 1)}

LedgerKeys == load_solved_conflict_keys(ledger)
\* what each line of a file parses to
EntriesOf(file) ==
  LET lines == read_lines(file.text, <<>>)
  IN  [i \in DOMAIN lines |-> json_loads_entry(lines[i])]

FileKeys == {EntriesOf(messages_file)[i].key : i \in DOMAIN EntriesOf(messages_file)}

\* the summed token count of the messages assembled for conflict k
AssembledTotal(k) ==
  estimate_total_tokens(assemble_messages(build_full_conflict(conflicts[k])))

\* the oracle's reply to the key processed last carries this verdict
LastVerdictIs(v) == last.reply.status = "ok" /\ last.reply.text = JsonText(v)

\* the key processed last is a disconnected key that was not solved at the
\* start of this run of disambiguate_disconnected_entries
LastIsUnsolvedConflict ==
  /\ wf = "disambiguate"
  /\ last.key \in disconnected_entries
  /\ last.key \notin solved_conflicts_keys

\* the result the ledger stores for key k (its first line)
StoredResult(k) ==
  LET entries == EntriesOf(ledger)
  IN  entries[CHOOSE i \in DOMAIN entries :
                entries[i].key = k /\ \A j \in 1..(i - 1) : entries[j].key /= k].value

\* the 'instances' a verdict's groups dictate for key k
RemappedInstances(k, groups) ==
  [g \in DOMAIN groups |-> [i \in DOMAIN groups[g] |-> <<k, groups[g][i]>>]]

\* ------------------------------------------------ workflows: the claims
\* C1: in make_inferences and in disambiguate_disconnected_entries no oracle
\* request is issued, during a run, for a key that was in the solved-key set
\* loaded from the ledger at the start of that run.
C1_SolvedNeverRequested ==
  \A k \in solved_conflicts_keys : k \notin oracleCalls

\* a run of make_inferences has ended that skipped a solved key of its batch
\* and issued a request for another key
C1_Witness ==
  /\ wf = "infer"
  /\ pc = "done"
  /\ \E k \in Visited : k \in solved_conflicts_keys
  /\ \E k \in Visited : k \in oracleCalls

\* C2: a conflict whose processing failed (non-success or empty answer,
\* answer without a non-empty parsed result, exception) is not recorded in the
\* ledger, so it is not in the solved-key set the next run loads and the
\* next run issues an oracle request for it.
C2_FailedNotRecordedAndRetried ==
  wf \in {"infer", "disambiguate"} =>
    /\ \A k \in FailedKeys : k \notin LedgerKeys
    /\ \A k \in prevFailed :
         /\ k \notin solved_conflicts_keys
         /\ k \in Visited => k \in oracleCalls

\* C3: a failure local to one conflict never aborts the batch: when a run of
\* any of the three workflows has ended, every key that follows a failed key
\* in the batch has been processed.
C3_LaterKeysProcessed ==
  RunEnded =>
    \A i, j \in DOMAIN batch :
      (i < j /\ batch[i] \in FailedKeys) => batch[j] \in Visited

\* C4: message assembly succeeds iff the summed token count of the assembled
\* messages is at most the ceiling of 130000; over the ceiling the build
\* raises to the caller, no messages are persisted for the conflict and no
\* oracle request is ever issued for it.
C4_BudgetEnforced ==
  mode = "bench" =>
    \A k \in Keys :
      ~build_full_conflict(conflicts[k]).raised =>
        /\ (wf = "prepare" /\ k \in Visited) =>
             /\ AssembledTotal(k) <= 130000 <=> k \in FileKeys
             /\ AssembledTotal(k) > 130000 =>
                  /\ [key |-> k, why |-> "ValueError"] \in failed
                  /\ pc = "aborted"
        /\ AssembledTotal(k) > 130000 => (k \notin FileKeys /\ k \notin oracleCalls)

\* the first conflict totals exactly the ceiling and was sent to the oracle;
\* the second is over the ceiling, its build failed and a run of
\* make_inferences over the messages file has ended
C4_Witness ==
  /\ mode = "bench"
  /\ wf = "infer"
  /\ RunEnded
  /\ AssembledTotal(1) = 130000
  /\ 1 \in oracleCalls
  /\ ~build_full_conflict(conflicts[2]).raised
  /\ AssembledTotal(2) > 130000
  /\ prepRuns = 1

\* C5: in disambiguate_disconnected_entries a conflict whose verdict is
\* "Unclear" has its result appended to the ledger and a review item raised,
\* and gets no remapping in the returned grouping.
C5_UnclearRecorded ==
  (LastIsUnsolvedConflict /\ LastVerdictIs("Unclear")) =>
    /\ last.key \in LedgerKeys
    /\ last.key \in issues
    /\ last.key \notin DOMAIN disambiguated_grouped

\* C6: in disambiguate_disconnected_entries a conflict whose verdict is not
\* "Unclear" is remapped into the groups of the verdict and its result is
\* written to the ledger; no key is recorded in the ledger by a run without
\* its remapping being in the grouping of that run.
C6_ResolvedRemapped ==
  /\ \A v \in Verdicts \ {"Unclear"} :
       (LastIsUnsolvedConflict /\ LastVerdictIs(v)) =>
         /\ last.key \in LedgerKeys
         /\ last.key \in DOMAIN disambiguated_grouped
         /\ disambiguated_grouped[last.key] =
              [instances |-> RemappedInstances(last.key, GroupsOf(v))]
  /\ wf = "disambiguate" =>
       \A k \in LedgerKeys \ solved_conflicts_keys :
         StoredResult(k).verdict /= "Unclear" => k \in DOMAIN disambiguated_grouped

\* C7: a disconnected key that is in the solved-key set at workflow start
\* bypasses assembling and the oracle, and the returned results and grouping
\* hold for it what the verdict stored in the ledger dictates.
C7_SolvedReused ==
  (wf = "disambiguate" /\ pc = "done") =>
    \A k \in disconnected_entries \cap solved_conflicts_keys :
      /\ k \notin oracleCalls
      /\ k \in DOMAIN results
      /\ results[k] = StoredResult(k)
      /\ StoredResult(k).verdict /= "Unclear" =>
           /\ k \in DOMAIN disambiguated_grouped
           /\ disambiguated_grouped[k] =
                [instances |-> RemappedInstances(k, StoredResult(k).groups)]

\* the replies the oracle client is to turn into an empty answer
BadReplyStatuses == {"non_success", "ok_no_content", "ok_not_json", "network_error"}

\* make_inferences has queried the oracle for the key processed last
LastWasQueried == wf = "infer" /\ last.answer.attempts > 0

\* C14: for both providers the oracle client propagates no exception for a
\* bad reply or an exhausted retry: a non-success response, a success response
\* with an unparsable or empty body, and a network failure on every attempt
\* each make it return the pair (empty answer text, empty metadata).
C14_BadReplyGivesEmptyAnswer ==
  (LastWasQueried /\ last.reply.status \in BadReplyStatuses) =>
    /\ ~last.answer.raised
    /\ last.answer.content = EmptyText

\* C15: both providers apply bounded retry around the network call: when the
\* first attempt of a query fails transiently at least 2 attempts are made,
\* and never more than 3.
C15_BoundedRetry ==
  LastWasQueried =>
    /\ last.answer.attempts <= 3
    /\ (last.reply.transient >= 1 \/ last.reply.status = "network_error") =>
         last.answer.attempts >= 2

\* the place of a kind of message in the order of the sequence
KindRank(kind) ==
  CASE kind = "instruction" -> 1
    [] kind = "remaining" -> 2
    [] kind = "disconnected" -> 3
    [] kind = "content" -> 4
    [] kind = "final" -> 5
    [] OTHER -> 0

MessagesOfKind(messages, kind) == SelectSeq(messages, LAMBDA m : m.kind = kind)

\* instruction, remaining parts 1..n, disconnected parts 1..m, one message
\* per content of the conflict, closing instruction, and nothing else
InMessageOrder(messages, conflict) ==
  /\ Len(messages) >= 2
  /\ messages[1].kind = "instruction"
  /\ messages[Len(messages)].kind = "final"
  /\ Len(MessagesOfKind(messages, "instruction")) = 1
  /\ Len(MessagesOfKind(messages, "final")) = 1
  /\ \A i \in DOMAIN messages : KindRank(messages[i].kind) > 0
  /\ \A i \in 1..(Len(messages) - 1) :
       KindRank(messages[i].kind) <= KindRank(messages[i + 1].kind)
  /\ \A kind \in {"remaining", "disconnected"} :
       LET ms == MessagesOfKind(messages, kind)
       IN  /\ Len(ms) = Len(chunk_entries(conflict[kind], 8000))
           /\ \A i \in DOMAIN ms : ms[i].part = i
  /\ Len(MessagesOfKind(messages, "content")) = Len(conflict.web)

\* C13: every message sequence build_chat_messages_with_disconnected returns
\* is: the instruction; one message per chunk of 'remaining', parts 1..n in
\* order; one message per chunk of 'disconnected', parts 1..m in order; one
\* message per (URL, content-label) pair of webpage_contents; exactly one
\* closing instruction; and no other message.
C13_MessageOrder ==
  (wf = "prepare" /\ prepRuns = 1 /\ args.prompt_type = "chat") =>
    \A i \in DOMAIN EntriesOf(messages_file) :
      LET entry == EntriesOf(messages_file)[i]
      IN  InMessageOrder(entry.value, conflicts[entry.key])

\* the messages of a conflict whose 'remaining' partition fills two chunks
\* have been built and written by prepare_messages_file
C13_Witness ==
  /\ wf = "prepare"
  /\ prepRuns = 1
  /\ args.prompt_type = "chat"
  /\ \E i \in DOMAIN EntriesOf(messages_file) :
       LET messages == EntriesOf(messages_file)[i].value
       IN  /\ Len(MessagesOfKind(messages, "remaining")) = 2
           /\ Len(MessagesOfKind(messages, "disconnected")) = 1
           /\ Len(MessagesOfKind(messages, "content")) = 1

\* ------------------------------------------------ chunking: the claims
RECURSIVE SumSeq(_)
SumSeq(ns) == IF ns = <<>> THEN 0 ELSE Head(ns) + SumSeq(Tail(ns))

RECURSIVE Concat(_)
Concat(seqs) == IF seqs = <<>> THEN <<>> ELSE Head(seqs) \o Concat(Tail(seqs))

\* token counts of the items of one returned chunk, as the chunker counted them
ChunkItemTokens ==
  [i \in DOMAIN cOut.chunks |->
     IF cIn.kind = "text"
     THEN LET ws == split(cOut.chunks[i])
          IN  [j \in DOMAIN ws |-> encode_len(cIn.enc, ws[j] \o <<" ">>)]
     ELSE [j \in DOMAIN cOut.chunks[i] |-> cOut.chunks[i][j].tok]]

\* the input of chunk_text is a word sequence joined by single spaces
IsWordSequenceText == cIn.kind = "text" /\ cIn.text = join(split(cIn.text))

\* C8: for every input word sequence and positive max_tokens, joining the
\* chunks returned by chunk_text with single spaces gives back the original
\* text exactly, also when one word alone exceeds max_tokens.
C8_ChunkTextRoundTrip ==
  (cOut.called /\ IsWordSequenceText) => join(cOut.chunks) = cIn.text

\* C9: every chunk returned by chunk_text and chunk_entries has a token sum of
\* at most max_tokens, unless it is exactly one item that alone exceeds it.
C9_ChunkBound ==
  cOut.called =>
    \A i \in DOMAIN cOut.chunks :
      LET toks == ChunkItemTokens[i]
      IN  \/ SumSeq(toks) <= cIn.max_tokens
          \/ Len(toks) = 1 /\ toks[1] > cIn.max_tokens

\* chunk_text returned a chunk of several words and a chunk that is one
\* oversized word
C9_Witness ==
  /\ cOut.called
  /\ cIn.kind = "text"
  /\ \E i, j \in DOMAIN cOut.chunks :
       /\ Len(ChunkItemTokens[i]) >= 2
       /\ Len(ChunkItemTokens[j]) = 1
       /\ ChunkItemTokens[j][1] > cIn.max_tokens

\* C10: chunk_entries never splits, drops, duplicates or reorders a record:
\* the chunks concatenated in order are the input list, and a record that
\* alone exceeds the limit is the only record of its chunk.
C10_ChunkEntriesPartition ==
  (cOut.called /\ cIn.kind = "entries") =>
    /\ Concat(cOut.chunks) = cIn.entries
    /\ \A i \in DOMAIN cOut.chunks :
         \A j \in DOMAIN cOut.chunks[i] :
           cOut.chunks[i][j].tok > cIn.max_tokens => Len(cOut.chunks[i]) = 1

\* chunk_entries was given three records, the middle one oversized, and
\* returned more than one chunk
C10_Witness ==
  /\ cOut.called
  /\ cIn.kind = "entries"
  /\ Len(cIn.entries) = 3
  /\ cIn.entries[2].tok > cIn.max_tokens
  /\ cIn.entries[1].tok <= cIn.max_tokens
  /\ Len(cOut.chunks) >= 2

\* -------------------------------------- build_full_conflict: the claims
\* the distinct non-empty URLs the entries of both partitions reference
ReferencedUrls ==
  {u \in Urls \ {""} :
     \E e \in Range(cIn.conflict.disconnected) \cup Range(cIn.conflict.remaining) :
       \/ u \in Range(e.webpage)
       \/ \E r \in Range(e.repository) : r.url = u}

Occurrences(seq, x) == Cardinality({i \in DOMAIN seq : seq[i] = x})

ContentKeys == [i \in DOMAIN cOut.webpage_contents |-> cOut.webpage_contents[i].url]

C12_ReferenceFieldsStripped ==
  (cOut.called /\ cIn.kind = "conflict" /\ ~cOut.raised) =>
    \A e \in Range(cOut.disconnected) \cup Range(cOut.remaining) :
      /\ "repository" \notin DOMAIN e
      /\ "webpage" \notin DOMAIN e

\* ---------------------------------------------- parse_result: the claims
\* the spans of the text that are a brace-delimited object directly after an
\* opening fence and directly before a fence marker
FencedObjects(tokens, openers) ==
  {sp \in (DOMAIN tokens) \X (DOMAIN tokens) :
     /\ sp[1] >= 2
     /\ tokens[sp[1] - 1] \in openers
     /\ tokens[sp[1]] = "{"
     /\ sp[1] < sp[2]
     /\ tokens[sp[2]] = "}"
     /\ sp[2] < Len(tokens)
     /\ tokens[sp[2] + 1] \in {"~~~", "~~~json", "~~~python"}}

\* what the extraction order gives for a text, the fences in openers being
\* those that open a code block
ExtractedInOrder(tokens, openers) ==
  LET blocks == FencedObjects(tokens, openers)
  IN  IF blocks /= {}
      THEN LET sp == CHOOSE b \in blocks :
                       \A o \in blocks : b[1] < o[1] \/ (b[1] = o[1] /\ b[2] <= o[2])
           IN  json_loads(SubSeq(tokens, sp[1], sp[2]))
      ELSE IF \E i, j \in DOMAIN tokens : i < j /\ tokens[i] = "{" /\ tokens[j] = "}"
           THEN LET i == CHOOSE k \in DOMAIN tokens :
                           tokens[k] = "{" /\ \A l \in 1..(k - 1) : tokens[l] /= "{"
                    j == CHOOSE k \in DOMAIN tokens :
                           tokens[k] = "}" /\ \A l \in (k + 1)..Len(tokens) : tokens[l] /= "}"
                IN  json_loads(SubSeq(tokens, i, j))
           ELSE EmptyResult

ParsedAnswerText == cOut.called /\ cIn.kind = "answer" /\ cIn.value.type = "str"

\* C16: parse_result raises for no answer value the oracle client or
\* make_inference can hand to it; when no JSON candidate is found or the
\* candidate is not valid JSON it returns an empty result.
C16_ParseNeverRaises ==
  (cOut.called /\ cIn.kind = "answer") =>
    /\ ~cOut.result.raised
    /\ (\A i \in DOMAIN cIn.value.tokens : cIn.value.tokens[i] /= "{") =>
         cOut.result.value = EmptyResult

\* C17 as stated: a fenced code block tagged json or untagged that holds a
\* brace-delimited object is parsed regardless of other braces; only without
\* such a block is the text from the first opening to the last closing brace
\* parsed; a valid candidate is the result.
C17_JsonOrUntaggedBlockFirst ==
  ParsedAnswerText =>
    cOut.result.value = ExtractedInOrder(cIn.value.tokens, {"~~~", "~~~json"})

\* C17 (amended): the same order, the code block being tagged json or python
\* or untagged.
C17_TaggedOrUntaggedBlockFirst ==
  ParsedAnswerText =>
    cOut.result.value =
      ExtractedInOrder(cIn.value.tokens, {"~~~", "~~~json", "~~~python"})

\* parse_result returned the object of a code block tagged python from a
\* text that has another brace after the block
C17_Witness ==
  /\ ParsedAnswerText
  /\ cIn.value.tokens = <<"~~~python", "{", "Same", "}", "~~~", "}">>
  /\ cOut.result.value /= EmptyResult
  /\ cOut.result.value.object = <<"{", "Same", "}">>

\* ------------------------------------------------ the ledger: the claims
IsNewline(piece) == piece.part = "newline"

\* the keys k for which a line of the text is the whole record of k
WellFormedLineKeys(file) ==
  {k \in Keys :
     \E i \in DOMAIN file.text :
       /\ i + 1 <= Len(file.text)
       /\ file.text[i].part = "head" /\ file.text[i].key = k
       /\ file.text[i + 1].part = "tail" /\ file.text[i + 1].key = k
       /\ i = 1 \/ IsNewline(file.text[i - 1])
       /\ i + 2 > Len(file.text) \/ IsNewline(file.text[i + 2])}

LinesOfLedger == read_lines(ledger.text, <<>>)

C19_CrashLosesOnlyInFlight ==
  ~appends.overlapped =>
    \A k \in appends.completed : k \in load_solved_conflict_keys(ledger)

\* C20: when two workers have appended concurrently, in whatever order
\* their writes got to the file, the ledger has well-formed lines only and
\* holds the record of each worker on a line of its own.
C20_ConcurrentAppendsSafe ==
  (appends.crashed = {} /\ \A w \in Workers : workers[w].key = 0) =>
    /\ \A i \in DOMAIN LinesOfLedger : ~json_loads_entry(LinesOfLedger[i]).raised
    /\ \A k \in appends.completed :
         \E i \in DOMAIN LinesOfLedger : json_loads_entry(LinesOfLedger[i]).key = k

\* ------------------------------------------- the link enricher: the claims
EvidenceFields == {"repo_metadata", "readme_content", "project_metadata", "content"}

EnrichCalled == cOut.called /\ cIn.kind = "enrich"

\* the URL the strategies of the call were chosen on
ResolvedLink == get_redirect(cIn.link, cIn.web)

\* C21: enrich_link raises for no URL; whatever fails inside a source
\* strategy, it returns a record that carries the URL and in which the
\* fields that failed are absent.
C21_EnrichNeverRaises ==
  EnrichCalled =>
    /\ ~cOut.enriched.raised
    /\ cOut.enriched.new_link.url = cIn.link
    /\ \A f \in EvidenceFields : cOut.enriched.new_link[f] \in {"absent", "None", "data"}

\* the strategy the first matching pattern selects, in the priority order
\* GitHub, GitLab, PyPI, SourceForge, Bitbucket, organizational git host
SelectedStrategy(link) ==
  IF HostIn("github.com", link) THEN "github"
  ELSE IF HostIn("gitlab.com", link) THEN "gitlab"
  ELSE IF HostIn("pypi.org/project/", link) THEN "pypi"
  ELSE IF \E alt \in {"sourceforge.net/projects/", "sf.net/p/", "sourceforge.net/p/"} :
            HostIn(alt, link) THEN "sourceforge"
  ELSE IF HostIn("bitbucket.org", link) THEN "bitbucket"
  ELSE IF HostIn("git.bioconductor", link) THEN "bioconductor"
  ELSE "generic"

\* C23: for every resolved URL enrich_link applies exactly one extraction
\* strategy, the one of the first pattern that matches in the priority
\* order; the generic strategy runs only when no pattern matches.
C23_ExactlyOneStrategy ==
  (EnrichCalled /\ ResolvedLink /= "False") =>
    cOut.enriched.strategies = <<SelectedStrategy(ResolvedLink)>>

\* C24: when the redirect resolution fails, enrich_link runs no extraction
\* strategy and returns a record that holds the URL only, so the URL gets
\* no evidence label in webpage_contents.
C24_FailedRedirectNoEvidence ==
  (EnrichCalled /\ cIn.web.redirect = "fails") =>
    /\ ~cOut.enriched.raised
    /\ cOut.enriched.strategies = <<>>
    /\ cOut.enriched.new_link = NewLink(cIn.link)
    /\ cOut.labels = {}

\* enrich_link has returned for a GitHub repository whose metadata and
\* README are there to be fetched, and whose redirect resolution failed
C24_Witness ==
  /\ EnrichCalled
  /\ cIn.web.redirect = "fails"
  /\ cIn.link = "https://github.com/org/tool"
  /\ cIn.web.github /\ cIn.web.readme
  /\ cOut.labels = {}

\* C22: in build_full_conflict a failure while one URL is enriched does not
\* stop the assembly: the conflict is returned, and every other URL of the
\* conflict has been enriched.
C22_EnrichFailureDoesNotAbort ==
  (cOut.called /\ cIn.kind = "conflict" /\ ~cIn.gitlab_up) =>
    /\ ~cOut.raised
    /\ Range(cOut.calls) = ReferencedUrls

\* ------------------------------------------- make_inferences: the claims
LastInferIteration == wf = "infer" /\ last.key /= 0

Sleeps(steps) == SelectSeq(steps, LAMBDA step : step.op = "sleep")

\* C25: in make_inferences every call of the oracle client of openrouter
\* comes right after one delay of 60/20 seconds, the call of a provider
\* without quota comes after no delay, and an iteration that skips a solved
\* key spends no delay.
C25_DelayBeforeThrottledCall ==
  LastInferIteration =>
    IF last.key \in solved_conflicts_keys
    THEN last.steps = <<>>
    ELSE /\ Len(last.steps) >= 1
         /\ last.steps[Len(last.steps)].op = "query"
         /\ IF args.provider = "openrouter"
            THEN /\ Len(last.steps) = 2
                 /\ last.steps[1] = [op |-> "sleep", seconds |-> 60 \div 20]
            ELSE Sleeps(last.steps) = <<>>

\* a run for openrouter has skipped a solved key and has queried the oracle
\* for another key, after the delay
C25_Witness ==
  /\ LastInferIteration
  /\ args.provider = "openrouter"
  /\ solved_conflicts_keys /= {}
  /\ last.key \notin solved_conflicts_keys
  /\ last.answer.attempts >= 1
  /\ Sleeps(last.steps) /= <<>>

\* C27: after make_inferences has processed its keys, every processed key
\* has a raw-response file that holds the answer given for that key and a
\* metadata file that holds usage records of that key only.
C27_OneFilePairPerKey ==
  (wf = "infer" /\ pc = "done") =>
    \A key \in oracleCalls :
      /\ raw_result_path(key) \in DOMAIN raw_files
      /\ raw_files[raw_result_path(key)][1].key = key
      /\ meta_file_path(key) \in DOMAIN raw_files
      /\ \A i \in DOMAIN raw_files[meta_file_path(key)] :
           raw_files[meta_file_path(key)][i].key = key

\* ------------------------------------------------ chunking: empty chunks
\* the words of the text, or the entries, the chunker was given
ChunkedItems == IF cIn.kind = "text" THEN split(cIn.text) ELSE cIn.entries

\* C29: chunk_text and chunk_entries return no empty chunk: for a non-empty
\* input and a positive limit every chunk holds at least one item, also
\* when the first item alone exceeds the limit, and for an empty input no
\* chunk is returned.
C29_NoEmptyChunk ==
  (cOut.called /\ cIn.kind \in {"text", "entries"}) =>
    /\ \A i \in DOMAIN cOut.chunks : cOut.chunks[i] /= <<>>
    /\ ChunkedItems = <<>> => cOut.chunks = <<>>

\* --------------------------------------- write_to_results_file: the claim
IsPrefix(short, long) ==
  Len(short) <= Len(long) /\ \A i \in DOMAIN short : short[i] = long[i]

\* C26: after any sequence of calls of write_to_results_file without a
\* crash, the lines that were there before the last call are unchanged and
\* load_solved_conflict_keys returns exactly the keys appended so far,
\* whatever the path: with a directory that exists, with one that does not
\* exist yet, or a bare file name.
C26_AppendsAreLoaded ==
  (cIn.kind = "append" /\ cOut.called) =>
    /\ IsPrefix(cOut.before, LinesOfLedger)
    /\ load_solved_conflict_keys(ledger) = appends.completed

\* ------------------------------------------------ build_prompt: the claim
\* C28: build_prompt chooses the template from the sizes of the partitions
\* alone: 'disconnected_entries' for (1, 1) and (more than 1, 0),
\* 'one_disconnected_several_remaining' for (1, more than 1),
\* 'several_disconnected_several_remaining' for (more than 1, more than 1);
\* every other combination is rejected with an error, and no messages are
\* built.
C28_TemplateFromSizes ==
  (cOut.called /\ cIn.kind = "prompt") =>
    LET n_disconnected == Len(cIn.disconnected)
        n_remaining == Len(cIn.remaining)
        Chosen(template) == ~cOut.built.raised /\ cOut.built.template = template
    IN  IF (n_disconnected = 1 /\ n_remaining = 1) \/ (n_disconnected > 1 /\ n_remaining = 0)
        THEN Chosen("disconnected_entries")
        ELSE IF n_disconnected = 1 /\ n_remaining > 1
        THEN Chosen("one_disconnected_several_remaining")
        ELSE IF n_disconnected > 1 /\ n_remaining > 1
        THEN Chosen("several_disconnected_several_remaining")
        ELSE cOut.built = Raised("ValueError")

\* build_prompt was called with several disconnected entries and one
\* remaining entry, and raised
C28_Witness ==
  /\ cOut.called
  /\ cIn.kind = "prompt"
  /\ Len(cIn.disconnected) > 1
  /\ Len(cIn.remaining) = 1
  /\ cOut.built.raised

====
